---- MODULE Spec2Model ----
(***************************************************************************)
(* Telemetry pipeline of the coffee roaster monitor:                       *)
(*   BLEHandler (src/ble_handler.py): acquisition loop run_ble on its own  *)
(*   thread, notification callback _callback, start/stop.                  *)
(*   RoasterMonitor (src/main.py): the GUI thread with the 100ms timer     *)
(*   tick update_plot and the session controls.                            *)
(* Temperatures are carried as integer hundredths of a degree: the value   *)
(* v stands for the float v/100 that _decode_temperature returns.          *)
(* loop.time() and datetime.now() are both read from the one clock `now`.  *)
(***************************************************************************)
EXTENDS Integers, Sequences, FiniteSets, TLC

\* ---------------------------------------------------------------- bounds
\* deque(maxlen=3600) scaled down so that eviction is reachable
Capacity == 2
\* the same, with room for the four samples of the end-to-end scenario
ScenarioCapacity == 4
\* notifications delivered in one behaviour
MaxSamples == 3
\* last value of the clock
MaxTime == 1
\* acquisition threads created in one behaviour
MaxThreads == 2

\* longest series handed to calculate_ror and to the smoothing step
MaxN == 4
\* largest elapsed time in those series, in seconds
MaxElapsed == 3
\* largest look-back / smoothing window
MaxWindow == 3
\* longest linear ramp, and largest look-back window applied to it
MaxRamp == 8
\* samples in a history written to a CSV file
MaxRows == 2

\* ------------------------------------------------------------- constants
\* an optional value: None, or Some(v) for the value v
None == << >>
Some(v) == <<v>>
ENV_SENSE_TEMP1_UUID == "2a6e"
ENV_SENSE_TEMP2_UUID == "2a1c"
UUIDS == {ENV_SENSE_TEMP1_UUID, ENV_SENSE_TEMP2_UUID}

\* Queue() is built with the default maxsize 0: unbounded
QueueMaxsize == 0

\* notification payloads (byte sequences) the sensor may deliver
P_EMPTY == << >>
P_SHORT == <<208, 7>>
P_LONG  == <<208, 7, 0, 0, 0>>
P_2000  == <<208, 7, 0, 0>>
P_2010  == <<218, 7, 0, 0>>
P_1990  == <<198, 7, 0, 0>>
P_NEG   == <<255, 255, 255, 255>>
Payloads == {P_EMPTY, P_SHORT, P_LONG, P_2000, P_2010, P_1990, P_NEG}
PipePayloads == {P_EMPTY, P_SHORT, P_LONG, P_2000}
AcqPayloads == {P_2000}
\* the end-to-end scenario: (t=0,A,20.00) (t=0,B,20.00) (t=1,A,20.10)
\* (t=1,B,19.90)
Scenario ==
  << <<0, ENV_SENSE_TEMP1_UUID, P_2000>>, <<0, ENV_SENSE_TEMP2_UUID, P_2000>>,
     <<1, ENV_SENSE_TEMP1_UUID, P_2010>>, <<1, ENV_SENSE_TEMP2_UUID, P_1990>> >>

VARIABLES
  maxlen,            \* the maxlen the four deques were built with
  data_queue,        \* RoasterMonitor.data_queue / BLEHandler._queue
  timestamps,        \* deque of capture times
  iso_timestamps,    \* deque of wall-clock stamps taken when processed
  grill_temp_data,   \* channel A series
  drum_temp_data,    \* channel B series
  roast_started,
  start_time,
  times,             \* elapsed-time array computed by the last tick / save
  start_btn,         \* enabled state of the Start button
  stop_btn,          \* enabled state of the Stop button
  running,           \* BLEHandler._running
  thread,            \* BLEHandler._thread: index into pc, 0 for None
  pc,                \* position of every acquisition thread created so far
  pending,           \* per thread: failure not yet followed by a backoff sleep
  gpc,               \* position of the GUI thread
  now,               \* clock
  enqueuedLog,       \* history: every sample put on the queue, in order
  processedLog,      \* history: every sample taken off the queue, in order
  tickStartEnq,      \* history: number of samples put when the tick began
  tickStartProc,     \* history: number of samples processed when the tick began
  notified,          \* history: number of notifications delivered
  escaped,           \* history: number of exceptions that left _callback
  putBlocked,        \* history: a put found the queue full
  resets,            \* history: number of samples processed at the last reset
  ror_call,          \* one call of calculate_ror: arguments and returned array
  smooth_call,       \* one pass of the smoothing step: arguments and output
  _spike_buffer,     \* RoasterMonitor._spike_buffer
  spike_owner,       \* history: channel of each entry of _spike_buffer
  spike_run,         \* history: candidates rejected in a row, as the spec counts
  fs,                \* the last call of filter_spike: arguments and result
  first_crack_start,
  first_crack_end,
  second_crack_start,
  second_crack_end,
  first_crack_btn,   \* enabled state of the First Crack button
  second_crack_btn,  \* enabled state of the Second Crack button
  ror_window,
  smooth_window,
  csv                \* a history, the file save_data writes from it and what
                     \* load_ghost_profile reads back from that file

vars == <<maxlen, data_queue, timestamps, iso_timestamps, grill_temp_data,
          drum_temp_data, roast_started, start_time, times, start_btn,
          stop_btn, running, thread, pc, pending, gpc, now, enqueuedLog,
          processedLog, tickStartEnq, tickStartProc, notified, escaped,
          putBlocked, resets, ror_call, smooth_call, _spike_buffer,
          spike_owner, spike_run, fs, first_crack_start, first_crack_end,
          second_crack_start, second_crack_end, first_crack_btn,
          second_crack_btn, ror_window, smooth_window, csv>>

historyVars == <<maxlen, timestamps, iso_timestamps, grill_temp_data, drum_temp_data>>
sessionVars == <<roast_started, start_time>>
buttonVars == <<start_btn, stop_btn>>
producerVars == <<running, thread, pc, pending>>
queueVars == <<data_queue, enqueuedLog, notified, escaped, putBlocked>>
tickVars == <<processedLog, tickStartEnq, tickStartProc>>
spikeVars == <<_spike_buffer, spike_owner, spike_run, fs>>
calcVars == <<ror_call, smooth_call, spikeVars, csv>>
crackVars == <<first_crack_start, first_crack_end, second_crack_start,
               second_crack_end, first_crack_btn, second_crack_btn>>
windowVars == <<ror_window, smooth_window>>

\* ------------------------------------------------------------ helpers
Last(s) == s[Len(s)]

\* struct.unpack("<i", data): needs exactly 4 bytes; little-endian, the top
\* byte carries the two's complement sign
StructSize == 4
UnpackOk(data) == Len(data) = StructSize
UnpackInt32LE(data) ==
  data[1] + 256 * data[2] + 65536 * data[3]
    + 16777216 * (IF data[4] >= 128 THEN data[4] - 256 ELSE data[4])

\* _decode_temperature: struct.error unless the payload has 4 bytes,
\* else the reading in hundredths of a degree
DecodeRaises(data) == ~UnpackOk(data)
_decode_temperature(data) == UnpackInt32LE(data)

\* deque.append under maxlen
DequeAppend(d, x) ==
  IF Len(d) < maxlen THEN Append(d, x) ELSE Append(Tail(d), x)

\* no call of calculate_ror, of the smoothing step or of filter_spike yet
NoRorCall == [t |-> << >>, x |-> << >>, w |-> 1, done |-> FALSE, out |-> << >>]
NoSmoothCall ==
  [t |-> << >>, x |-> << >>, w |-> 1, done |-> FALSE,
   out_t |-> << >>, out_x |-> << >>]
NoCsv ==
  [ts |-> << >>, iso |-> << >>, grill |-> << >>, drum |-> << >>, w |-> 30,
   stage |-> "none",
   file |-> << >>, ghost_times |-> << >>, ghost_grill |-> << >>,
   ghost_drum |-> << >>]
NoSpikeCall ==
  [called |-> FALSE, ch |-> "A", value |-> 0, data |-> << >>,
   before |-> << >>, ownersBefore |-> << >>, runBefore |-> << >>,
   result |-> <<0, 1>>, path |-> "none"]

\* _spike_buffer does not exist before the first call of filter_spike, which
\* creates it empty (lines 552-553)
InitSpike ==
  /\ _spike_buffer = << >>
  /\ spike_owner = << >>
  /\ spike_run = << >>
  /\ fs = NoSpikeCall

InitPipeline(n) ==
  /\ maxlen = n
  /\ data_queue = << >>
  /\ timestamps = << >>
  /\ iso_timestamps = << >>
  /\ grill_temp_data = << >>
  /\ drum_temp_data = << >>
  /\ roast_started = FALSE
  /\ start_time = None
  /\ times = << >>
  /\ start_btn = TRUE
  /\ stop_btn = FALSE
  /\ running = FALSE
  /\ thread = 0
  /\ pc = << >>
  /\ pending = << >>
  /\ gpc = "idle"
  /\ now = 0
  /\ enqueuedLog = << >>
  /\ processedLog = << >>
  /\ tickStartEnq = 0
  /\ tickStartProc = 0
  /\ notified = 0
  /\ escaped = 0
  /\ putBlocked = FALSE
  /\ resets = 0

\* lines 32-35, 39 and 42; both crack buttons are built enabled (139-142);
\* the slider and the spin box get their first value before their signal is
\* connected (130-131, 159-160), so the constructor's values stand
InitControls ==
  /\ first_crack_start = None
  /\ first_crack_end = None
  /\ second_crack_start = None
  /\ second_crack_end = None
  /\ first_crack_btn = TRUE
  /\ second_crack_btn = TRUE
  /\ ror_window = 30
  /\ smooth_window = 10

InitWith(n) ==
  /\ InitPipeline(n)
  /\ InitControls
  /\ ror_call = NoRorCall
  /\ smooth_call = NoSmoothCall
  /\ InitSpike
  /\ csv = NoCsv

Init == InitWith(Capacity)
InitScenario == InitWith(ScenarioCapacity)

\* ------------------------------------------------- BLEHandler._callback
\* Queue.put blocks while maxsize > 0 and the queue holds maxsize items
QueueFullBounded(q) == Len(q) >= 2
QueueFull(q) == QueueMaxsize > 0 /\ Len(q) >= QueueMaxsize

\* the notification callback runs on the acquisition thread's event loop
\* while that thread is suspended with a subscription registered
CanNotify(i, uuid) ==
  \/ pc[i] = "sleep_poll"
  \/ pc[i] = "notify2" /\ uuid = ENV_SENSE_TEMP1_UUID

_callback(i, uuid, data, t) ==
  /\ CanNotify(i, uuid)
  /\ notified' = notified + 1
  /\ LET temp == IF data = << >> THEN None
                 ELSE Some(_decode_temperature(data))
     IN IF data # << >> /\ DecodeRaises(data)
        THEN \* struct.error leaves the callback before the timestamp is read
             /\ escaped' = escaped + 1
             /\ UNCHANGED <<data_queue, enqueuedLog, putBlocked, now>>
        ELSE /\ now' = t
             /\ escaped' = escaped
             /\ IF QueueFull(data_queue)
                THEN /\ putBlocked' = TRUE
                     /\ UNCHANGED <<data_queue, enqueuedLog>>
                ELSE /\ data_queue' = Append(data_queue, <<t, uuid, temp>>)
                     /\ enqueuedLog' = Append(enqueuedLog, <<t, uuid, temp>>)
                     /\ putBlocked' = putBlocked
  /\ UNCHANGED <<calcVars, crackVars, windowVars,
                 historyVars, sessionVars, times, buttonVars, producerVars,
                 gpc, tickVars, resets>>

\* the k-th notification of the end-to-end scenario
ScenarioNotification ==
  \E i \in DOMAIN pc :
    /\ notified < Len(Scenario)
    /\ LET n == Scenario[notified + 1]
       IN _callback(i, n[2], n[3], n[1])

\* a notification with a payload of PS, the clock having advanced by one of DT
Notification(PS, DT) ==
  \E i \in DOMAIN pc, uuid \in UUIDS, data \in PS, dt \in DT :
    LET t == now + dt IN
    /\ t <= MaxTime
    /\ notified < MaxSamples
    /\ _callback(i, uuid, data, t)

\* --------------------------------------------------- BLEHandler.run_ble
Goto(i, l, f) ==
  /\ pc' = [pc EXCEPT ![i] = l]
  /\ pending' = [pending EXCEPT ![i] = f]
  /\ UNCHANGED <<calcVars, crackVars, windowVars,
                 historyVars, sessionVars, times, buttonVars, running, thread,
                 gpc, now, queueVars, tickVars, resets>>

\* line 37: while self._running
LoopTestForever(i) ==
  /\ pc[i] = "loop"
  /\ Goto(i, "scan", pending[i])
LoopTest(i) ==
  /\ pc[i] = "loop"
  /\ Goto(i, IF running THEN "scan" ELSE "done", pending[i])

\* line 39: find_temp_sensor returns a device
ScanFound(i) == pc[i] = "scan" /\ Goto(i, "connect", pending[i])
\* lines 40-41: it returns None
ScanNotFound(i) == pc[i] = "scan" /\ Goto(i, "sleep_nf", "not_found")
\* it raises
ScanRaises(i) == pc[i] = "scan" /\ Goto(i, "except", "exception")

\* lines 42-43: sleep(5); continue
SleepNotFound(i) == pc[i] = "sleep_nf" /\ Goto(i, "loop", "none")

\* line 45: async with BleakClient(device) connects
ConnectOk(i) == pc[i] = "connect" /\ Goto(i, "service", pending[i])
ConnectRaises(i) == pc[i] = "connect" /\ Goto(i, "except", "exception")

\* lines 46-49: service lookup; a missing service continues the loop
ServiceFound(i) == pc[i] = "service" /\ Goto(i, "chars", pending[i])
ServiceMissing(i) == pc[i] = "service" /\ Goto(i, "aexit", "no_service")

\* lines 51-56: characteristic lookup; a missing one continues the loop
CharsFound(i) == pc[i] = "chars" /\ Goto(i, "notify1", pending[i])
CharsMissing(i) == pc[i] = "chars" /\ Goto(i, "aexit", "no_chars")

\* line 58: start_notify(temp1_char)
Notify1Ok(i) == pc[i] = "notify1" /\ Goto(i, "notify2", pending[i])
Notify1Raises(i) == pc[i] = "notify1" /\ Goto(i, "except", "exception")

\* line 59: start_notify(temp2_char)
Notify2Ok(i) == pc[i] = "notify2" /\ Goto(i, "poll", pending[i])
Notify2Raises(i) == pc[i] = "notify2" /\ Goto(i, "except", "exception")

\* line 61: while client.is_connected and self._running
PollTest(i, is_connected) ==
  /\ pc[i] = "poll"
  /\ IF is_connected /\ running
     THEN Goto(i, "sleep_poll", pending[i])
     ELSE Goto(i, "aexit", IF is_connected THEN pending[i] ELSE "disconnect")
PollAlive(i) == PollTest(i, TRUE)
PollDropped(i) == PollTest(i, FALSE)

\* line 62: sleep(1)
PollSleep(i) == pc[i] = "sleep_poll" /\ Goto(i, "poll", pending[i])

\* leaving the async with block: disconnect, then back to the loop head
\* (continue at 49/56 or the end of the body), or the disconnect raises
AExitOk(i) == pc[i] = "aexit" /\ Goto(i, "loop", pending[i])
AExitRaises(i) == pc[i] = "aexit" /\ Goto(i, "except", "exception")

\* lines 64-66: except Exception: log; sleep(5)
ExceptUncaught(i) == pc[i] = "except" /\ Goto(i, "done", "exception")
Except(i) == pc[i] = "except" /\ Goto(i, "loop", "none")

\* the steps of run_ble with a sensor that is found and stays connected
run_ble_healthy ==
  \E i \in DOMAIN pc :
    \/ LoopTest(i) \/ ScanFound(i) \/ ConnectOk(i) \/ ServiceFound(i)
    \/ CharsFound(i) \/ Notify1Ok(i) \/ Notify2Ok(i) \/ PollAlive(i)
    \/ PollSleep(i) \/ AExitOk(i)

\* the failure outcomes
run_ble_failing ==
  \E i \in DOMAIN pc :
    \/ ScanNotFound(i) \/ ScanRaises(i) \/ SleepNotFound(i)
    \/ ConnectRaises(i) \/ ServiceMissing(i) \/ CharsMissing(i)
    \/ Notify1Raises(i) \/ Notify2Raises(i) \/ PollDropped(i)
    \/ AExitRaises(i) \/ Except(i)

run_ble == run_ble_healthy \/ run_ble_failing

\* ------------------------------------------- RoasterMonitor.update_plot
\* timer timeout: the handler starts when the GUI thread is idle
TickBegin ==
  /\ gpc = "idle"
  /\ gpc' = "drain"
  /\ tickStartEnq' = Len(enqueuedLog)
  /\ tickStartProc' = Len(processedLog)
  /\ times' = << >>
  /\ UNCHANGED <<calcVars, crackVars, windowVars,
                 historyVars, sessionVars, buttonVars, producerVars,
                 now, queueVars, processedLog, resets>>

\* Queue.empty()
QueueEmptyNever(q) == FALSE
QueueEmpty(q) == Len(q) = 0

\* line 290: while not self.data_queue.empty()
DrainTest ==
  /\ gpc = "drain"
  /\ gpc' = IF QueueEmpty(data_queue) THEN "rest" ELSE "get"
  /\ UNCHANGED <<calcVars, crackVars, windowVars,
                 historyVars, sessionVars, times, buttonVars, producerVars,
                 now, queueVars, tickVars, resets>>

\* lines 296-304: the sample's channel gets its reading, the other channel
\* is padded when it is now the shorter one
AlignGrillNoPad(g, d, uuid, temp) ==
  IF uuid = ENV_SENSE_TEMP1_UUID THEN DequeAppend(g, temp) ELSE g
AlignGrill(g, d, uuid, temp) ==
  IF uuid = ENV_SENSE_TEMP1_UUID
  THEN DequeAppend(g, temp)
  ELSE LET d1 == DequeAppend(d, temp)
       IN IF Len(d1) > Len(g)
          THEN DequeAppend(g, IF g # << >> THEN Last(g) ELSE None)
          ELSE g

AlignDrumNoFill(g, d, uuid, temp) ==
  IF uuid = ENV_SENSE_TEMP1_UUID
  THEN LET g1 == DequeAppend(g, temp)
       IN IF Len(g1) > Len(d) THEN DequeAppend(d, None) ELSE d
  ELSE DequeAppend(d, temp)
AlignDrum(g, d, uuid, temp) ==
  IF uuid = ENV_SENSE_TEMP1_UUID
  THEN LET g1 == DequeAppend(g, temp)
       IN IF Len(g1) > Len(d)
          THEN DequeAppend(d, IF d # << >> THEN Last(d) ELSE None)
          ELSE d
  ELSE DequeAppend(d, temp)

\* Queue.get(): the oldest item
QueueGetNewest(q) == q[Len(q)]
QueueGet(q) == Head(q)

\* where the drain loop continues after one sample: back to its test
AfterSampleOnce == "rest"
AfterSample == "drain"

\* lines 291-304: blocking get, then append to the four series
DrainGet ==
  /\ gpc = "get"
  /\ IF data_queue = << >>
     THEN \* Queue.get() waits for an item
          /\ gpc' = "blocked"
          /\ UNCHANGED <<timestamps, iso_timestamps, grill_temp_data,
                         drum_temp_data, data_queue, processedLog>>
     ELSE LET sample == QueueGet(data_queue)
              timestamp == sample[1]
              uuid == sample[2]
              temp == sample[3]
          IN /\ data_queue' = Tail(data_queue)
             /\ processedLog' = Append(processedLog, sample)
             /\ iso_timestamps' = DequeAppend(iso_timestamps, now)
             /\ timestamps' = DequeAppend(timestamps, timestamp)
             /\ grill_temp_data' =
                  AlignGrill(grill_temp_data, drum_temp_data, uuid, temp)
             /\ drum_temp_data' =
                  AlignDrum(grill_temp_data, drum_temp_data, uuid, temp)
             /\ gpc' = AfterSample
  /\ UNCHANGED <<calcVars, crackVars, windowVars,
                 maxlen, sessionVars, times, buttonVars, producerVars, now,
                 enqueuedLog, notified, escaped, putBlocked, tickStartEnq,
                 tickStartProc, resets>>

\* lines 310-322 and 497-505: the timestamps are loop.time() floats, never
\* datetime objects, so both branches subtract the first timestamp
Elapsed(ts, started, st) ==
  IF started /\ st # None
  THEN LET start_timestamp == ts[1]
       IN [i \in 1..Len(ts) |-> ts[i] - start_timestamp]
  ELSE LET first_timestamp == ts[1]
       IN [i \in 1..Len(ts) |-> ts[i] - first_timestamp]

\* lines 306-322: the rest of the tick
TickRest ==
  /\ gpc = "rest"
  /\ gpc' = "idle"
  /\ times' = IF \/ timestamps = << >>
                 \/ Len(grill_temp_data) = 0
                 \/ Len(drum_temp_data) = 0
              THEN << >>
              ELSE Elapsed(timestamps, roast_started, start_time)
  /\ tickStartEnq' = 0
  /\ tickStartProc' = 0
  /\ UNCHANGED <<calcVars, crackVars, windowVars,
                 historyVars, sessionVars, buttonVars, producerVars, now,
                 queueVars, processedLog, resets>>

\* ------------------------------------------------- session controls
\* BLEHandler.start, called from start_logging (Start button enabled)
start_loggingStaysEnabled ==
  /\ gpc = "idle"
  /\ start_btn
  /\ Len(pc) < MaxThreads
  /\ running' = TRUE
  /\ pc' = Append(pc, "loop")
  /\ pending' = Append(pending, "none")
  /\ thread' = Len(pc) + 1
  /\ start_btn' = TRUE
  /\ stop_btn' = TRUE
  /\ first_crack_btn' = TRUE
  /\ second_crack_btn' = TRUE
  /\ start_time' = Some(now)
  /\ roast_started' = TRUE
  /\ times' = << >>
  /\ UNCHANGED <<calcVars, windowVars, first_crack_start, first_crack_end,
                 second_crack_start, second_crack_end, historyVars, gpc, now,
                 queueVars, tickVars, resets>>
start_logging ==
  /\ gpc = "idle"
  /\ start_btn
  /\ Len(pc) < MaxThreads
  /\ running' = TRUE
  /\ pc' = Append(pc, "loop")
  /\ pending' = Append(pending, "none")
  /\ thread' = Len(pc) + 1
  /\ start_btn' = FALSE
  /\ stop_btn' = TRUE
  /\ first_crack_btn' = TRUE
  /\ second_crack_btn' = TRUE
  /\ start_time' = Some(now)
  /\ roast_started' = TRUE
  /\ times' = << >>
  /\ UNCHANGED <<calcVars, windowVars, first_crack_start, first_crack_end,
                 second_crack_start, second_crack_end, historyVars, gpc, now,
                 queueVars, tickVars, resets>>

\* stop_logging line 460, BLEHandler.stop lines 74-76: clear the flag, then
\* the GUI thread waits in join
StopBegin ==
  /\ gpc = "idle"
  /\ stop_btn
  /\ running' = FALSE
  /\ gpc' = "join"
  /\ times' = << >>
  /\ UNCHANGED <<calcVars, crackVars, windowVars,
                 historyVars, sessionVars, buttonVars, thread, pc,
                 pending, now, queueVars, tickVars, resets>>

\* join returns once the thread has terminated; lines 461-467
StopJoinNoWait ==
  /\ gpc = "join"
  /\ start_btn' = TRUE
  /\ stop_btn' = FALSE
  /\ gpc' = "idle"
  /\ UNCHANGED <<calcVars, crackVars, windowVars,
                 historyVars, sessionVars, times, producerVars, now,
                 queueVars, tickVars, resets>>
StopJoin ==
  /\ gpc = "join"
  /\ thread = 0 \/ pc[thread] = "done"
  /\ start_btn' = TRUE
  /\ stop_btn' = FALSE
  /\ gpc' = "idle"
  /\ UNCHANGED <<calcVars, crackVars, windowVars,
                 historyVars, sessionVars, times, producerVars, now,
                 queueVars, tickVars, resets>>

\* lines 469-485
reset_dataKeepsStartTime ==
  /\ gpc = "idle"
  /\ timestamps' = << >>
  /\ iso_timestamps' = << >>
  /\ grill_temp_data' = << >>
  /\ drum_temp_data' = << >>
  /\ roast_started' = FALSE
  /\ start_time' = start_time
  /\ first_crack_start' = None
  /\ first_crack_end' = None
  /\ second_crack_start' = None
  /\ second_crack_end' = None
  /\ first_crack_btn' = TRUE
  /\ second_crack_btn' = TRUE
  /\ resets' = Len(processedLog)
  /\ times' = << >>
  /\ UNCHANGED <<calcVars, windowVars, maxlen, buttonVars, producerVars, gpc,
                 now, queueVars, tickVars>>
reset_data ==
  /\ gpc = "idle"
  /\ timestamps' = << >>
  /\ iso_timestamps' = << >>
  /\ grill_temp_data' = << >>
  /\ drum_temp_data' = << >>
  /\ roast_started' = FALSE
  /\ start_time' = None
  /\ first_crack_start' = None
  /\ first_crack_end' = None
  /\ second_crack_start' = None
  /\ second_crack_end' = None
  /\ first_crack_btn' = TRUE
  /\ second_crack_btn' = TRUE
  /\ resets' = Len(processedLog)
  /\ times' = << >>
  /\ UNCHANGED <<calcVars, windowVars, maxlen, buttonVars, producerVars, gpc,
                 now, queueVars, tickVars>>

\* lines 492-508
save_data ==
  /\ gpc = "idle"
  /\ times' = IF timestamps = << >>
              THEN << >>
              ELSE Elapsed(timestamps, roast_started, start_time)
  /\ UNCHANGED <<calcVars, crackVars, windowVars,
                 historyVars, sessionVars, buttonVars, producerVars, gpc, now,
                 queueVars, tickVars, resets>>

\* ------------------------------------------------- crack buttons
\* lines 366-387: a click on the enabled First Crack button
record_first_crack ==
  /\ gpc = "idle"
  /\ first_crack_btn
  /\ IF ~roast_started
     THEN UNCHANGED <<first_crack_start, first_crack_end, first_crack_btn>>
     ELSE LET current_time == Some(now)
          IN IF first_crack_start = None
             THEN /\ first_crack_start' = current_time
                  /\ UNCHANGED <<first_crack_end, first_crack_btn>>
             ELSE /\ first_crack_end' = current_time
                  /\ first_crack_btn' = FALSE
                  /\ UNCHANGED first_crack_start
  /\ UNCHANGED <<calcVars, windowVars, second_crack_start, second_crack_end,
                 second_crack_btn, historyVars, sessionVars, times, buttonVars,
                 producerVars, gpc, now, queueVars, tickVars, resets>>

\* lines 418-439: a click on the enabled Second Crack button
record_second_crack ==
  /\ gpc = "idle"
  /\ second_crack_btn
  /\ IF ~roast_started
     THEN UNCHANGED <<second_crack_start, second_crack_end, second_crack_btn>>
     ELSE LET current_time == Some(now)
          IN IF second_crack_start = None
             THEN /\ second_crack_start' = current_time
                  /\ UNCHANGED <<second_crack_end, second_crack_btn>>
             ELSE /\ second_crack_end' = current_time
                  /\ second_crack_btn' = FALSE
                  /\ UNCHANGED second_crack_start
  /\ UNCHANGED <<calcVars, windowVars, first_crack_start, first_crack_end,
                 first_crack_btn, historyVars, sessionVars, times, buttonVars,
                 producerVars, gpc, now, queueVars, tickVars, resets>>

\* ------------------------------------------------- window settings
\* values the spin box (range 10..120, line 129) and the slider (range
\* 1..40, lines 157-158) can be moved to
RorWindowValues == {10, 120}
SmoothWindowValues == {1, 40}

\* lines 201-203: valueChanged of the spin box
update_ror_window ==
  /\ gpc = "idle"
  /\ \E v \in RorWindowValues : ror_window' = v
  /\ UNCHANGED <<calcVars, crackVars, smooth_window, historyVars, sessionVars,
                 times, buttonVars, producerVars, gpc, now, queueVars,
                 tickVars, resets>>

\* lines 247-249: valueChanged of the slider
update_smoothingResets ==
  /\ gpc = "idle"
  /\ \E v \in SmoothWindowValues : smooth_window' = v
  /\ timestamps' = << >>
  /\ iso_timestamps' = << >>
  /\ grill_temp_data' = << >>
  /\ drum_temp_data' = << >>
  /\ UNCHANGED <<calcVars, crackVars, ror_window, maxlen, sessionVars,
                 times, buttonVars, producerVars, gpc, now, queueVars,
                 tickVars, resets>>
update_smoothing ==
  /\ gpc = "idle"
  /\ \E v \in SmoothWindowValues : smooth_window' = v
  /\ UNCHANGED <<calcVars, crackVars, ror_window, historyVars, sessionVars,
                 times, buttonVars, producerVars, gpc, now, queueVars,
                 tickVars, resets>>

\* ------------------------------------------------- closing the window
\* lines 543-545: closeEvent calls stop_logging whatever the Stop button's
\* state; BLEHandler.stop clears the flag and joins
CloseBegin ==
  /\ gpc = "idle"
  /\ running' = FALSE
  /\ gpc' = "closing"
  /\ times' = << >>
  /\ UNCHANGED <<calcVars, crackVars, windowVars, historyVars, sessionVars,
                 buttonVars, thread, pc, pending, now, queueVars, tickVars,
                 resets>>

\* the join returned, lines 461-467, event.accept(): the window is closed and
\* no handler runs any more
CloseJoin ==
  /\ gpc = "closing"
  /\ IF thread = 0 THEN TRUE ELSE pc[thread] = "done"
  /\ start_btn' = TRUE
  /\ stop_btn' = FALSE
  /\ gpc' = "closed"
  /\ UNCHANGED <<calcVars, crackVars, windowVars, historyVars, sessionVars,
                 times, producerVars, now, queueVars, tickVars, resets>>

closeEvent == CloseBegin \/ CloseJoin

\* datetime.now() moves on between two handlers
ClockTick ==
  /\ now < MaxTime
  /\ now' = now + 1
  /\ UNCHANGED <<calcVars, crackVars, windowVars, historyVars, sessionVars,
                 times, buttonVars, producerVars, gpc, queueVars, tickVars,
                 resets>>

\* ------------------------------------------ RoasterMonitor.calculate_ror
\* rates are exact fractions <<numerator, denominator>>, denominator > 0, of
\* hundredths of a degree per minute; RatEq compares two of them
RatEq(a, b) == a[1] * b[2] = b[1] * a[2]
RatZero == <<0, 1>>

\* lines 223-227: scan j = i-1 down to the first index, stop at the first
\* point at or before target_time; start_idx stays at the first index when
\* no point qualifies
RECURSIVE ScanBackStrict(_, _, _)
ScanBackStrict(ts, target_time, j) ==
  IF j < 1 THEN 1
  ELSE IF ts[j] < target_time THEN j
  ELSE ScanBackStrict(ts, target_time, j - 1)
RECURSIVE ScanBack(_, _, _)
ScanBack(ts, target_time, j) ==
  IF j < 1 THEN 1
  ELSE IF ts[j] <= target_time THEN j
  ELSE ScanBack(ts, target_time, j - 1)

\* line 235: (temp_diff / time_diff) * 60
PerSecond(temp_diff, time_diff) == <<temp_diff, time_diff>>
PerMinute(temp_diff, time_diff) == <<temp_diff * 60, time_diff>>

\* lines 219-238: one element of the result, for an index after the first
RorAt(ts, temps, window_seconds, i) ==
  LET target_time == ts[i] - window_seconds
      start_idx == ScanBack(ts, target_time, i - 1)
      time_diff == ts[i] - ts[start_idx]
      temp_diff == temps[i] - temps[start_idx]
  IN IF time_diff > 0 THEN PerMinute(temp_diff, time_diff) ELSE RatZero

\* lines 205-240
calculate_ror(ts, temps, window_seconds) ==
  IF Len(ts) < 2 \/ Len(temps) < 2
  THEN << >>
  ELSE [i \in 1..Len(ts) |->
          IF i = 1 THEN RatZero ELSE RorAt(ts, temps, window_seconds, i)]

\* line 328 / 508: the call, on the arguments held in ror_call
RorCompute ==
  /\ ~ror_call.done
  /\ ror_call' = [ror_call EXCEPT
                    !.done = TRUE,
                    !.out = calculate_ror(ror_call.t, ror_call.x, ror_call.w)]
  /\ UNCHANGED <<historyVars, sessionVars, times, buttonVars, producerVars,
                 gpc, now, queueVars, tickVars, resets, smooth_call, spikeVars,
                 crackVars, windowVars, csv>>

\* the series a call can receive: elapsed times are non-decreasing seconds,
\* temperatures are hundredths of a degree
SeqsOf(S, n) == [1..n -> S]
NonDecreasing(ts) == \A i \in 1..(Len(ts) - 1) : ts[i] <= ts[i + 1]
CalcTemps == {2000, 2010, 2025}
CalcInputs(n) ==
  {[t |-> ts, x |-> xs] :
     ts \in {q \in SeqsOf(0..MaxElapsed, n) : NonDecreasing(q)},
     xs \in SeqsOf(CalcTemps, n)}

InitRor ==
  /\ InitPipeline(Capacity)
  /\ InitControls
  /\ csv = NoCsv
  /\ smooth_call = NoSmoothCall
  /\ InitSpike
  /\ \E n \in 0..MaxN : \E in \in CalcInputs(n), w \in 1..MaxWindow :
       ror_call = [t |-> in.t, x |-> in.x, w |-> w, done |-> FALSE,
                   out |-> << >>]

NextRor == RorCompute
SpecRor == InitRor /\ [][NextRor]_vars

\* a ramp of +6 degrees per minute (10 hundredths per second) sampled once
\* per second from time 0
RampStarts == {0, 2000}
Ramp(n, x0) ==
  [t |-> [i \in 1..n |-> i - 1], x |-> [i \in 1..n |-> x0 + 10 * (i - 1)]]

InitRamp ==
  /\ InitPipeline(Capacity)
  /\ InitControls
  /\ csv = NoCsv
  /\ smooth_call = NoSmoothCall
  /\ InitSpike
  /\ \E n \in 2..MaxRamp, x0 \in RampStarts, w \in 1..MaxRamp :
       ror_call = [t |-> Ramp(n, x0).t, x |-> Ramp(n, x0).x, w |-> w,
                   done |-> FALSE, out |-> << >>]

NextRamp == RorCompute
SpecRamp == InitRamp /\ [][NextRamp]_vars

\* ------------------------------------ update_plot, smoothing (338-364)
\* np.convolve(x, np.ones(W)/W, 'valid'): output k is the sum over the kernel
\* index m of kernel[m] * x[k + W - 1 - m]; every kernel entry is 1/W, so the
\* element is the exact fraction <<sum, W>>
RECURSIVE ConvolveSum(_, _, _, _)
ConvolveSum(x, k, W, m) ==
  IF m > W THEN 0 ELSE x[k + W - m] + ConvolveSum(x, k, W, m + 1)
ConvolveValid(x, W) ==
  [k \in 1..(Len(x) - W + 1) |-> <<ConvolveSum(x, k, W, 1), W>>]

\* line 342: times[self.smooth_window-1:]
SmoothTimesLate(ts, W) == SubSeq(ts, W + 1, Len(ts))
SmoothTimes(ts, W) == SubSeq(ts, W, Len(ts))

\* the raw series as plotted by the else branch (361-362)
Raw(x) == [k \in 1..Len(x) |-> <<x[k], 1>>]

\* lines 339-364: what one temperature curve is set to
SmoothCompute ==
  /\ ~smooth_call.done
  /\ LET ts == smooth_call.t
         x == smooth_call.x
         W == smooth_call.w
     IN smooth_call' =
          IF Len(ts) >= W
          THEN [smooth_call EXCEPT !.done = TRUE,
                                   !.out_t = SmoothTimes(ts, W),
                                   !.out_x = ConvolveValid(x, W)]
          ELSE [smooth_call EXCEPT !.done = TRUE,
                                   !.out_t = ts,
                                   !.out_x = Raw(x)]
  /\ UNCHANGED <<historyVars, sessionVars, times, buttonVars, producerVars,
                 gpc, now, queueVars, tickVars, resets, ror_call, spikeVars,
                 crackVars, windowVars, csv>>

\* the smoothing step only runs on a non-empty history (line 306); the
\* slider gives windows from 1 up
InitSmooth ==
  /\ InitPipeline(Capacity)
  /\ InitControls
  /\ csv = NoCsv
  /\ ror_call = NoRorCall
  /\ InitSpike
  /\ \E n \in 1..MaxN : \E in \in CalcInputs(n), w \in 1..(MaxWindow + 1) :
       /\ smooth_call = [t |-> in.t, x |-> in.x, w |-> w, done |-> FALSE,
                         out_t |-> << >>, out_x |-> << >>]

NextSmooth == SmoothCompute
SpecSmooth == InitSmooth /\ [][NextSmooth]_vars

\* ------------------------------------------- filter_spike (547-578)
\* the default arguments of line 547; temperatures are hundredths of a
\* degree, so std_multiplier=2.5 is 250
window == 10
std_multiplier == 250
grace_period == 5

RECURSIVE SumSeq(_)
SumSeq(s) == IF s = << >> THEN 0 ELSE Head(s) + SumSeq(Tail(s))

Abs(n) == IF n < 0 THEN 0 - n ELSE n

\* line 555: len(data) < window
ShortHistoryStrict(data) == Len(data) < window - 1
ShortHistory(data) == Len(data) < window

\* line 559: list(data)[-window:], the whole list when it is shorter
RecentValues(data) ==
  SubSeq(data, IF Len(data) > window THEN Len(data) - window + 1 ELSE 1,
         Len(data))

\* lines 560-565: abs(new_value - mean) <= std_multiplier with
\* mean = sum(recent_values) / len(recent_values), both sides multiplied by
\* the number of recent values. The standard deviation of lines 561-563 is
\* computed and floored at 1 but never read
InBand(new_value, data) ==
  LET recent_values == RecentValues(data)
  IN Abs(Len(recent_values) * new_value - SumSeq(recent_values))
       <= Len(recent_values) * std_multiplier

\* lines 556-557 and 566-567: clear the buffer, return the candidate
AcceptKeep(buf, new_value) ==
  [buf |-> buf, result |-> <<new_value, 1>>]
Accept(buf, new_value) ==
  [buf |-> << >>, result |-> <<new_value, 1>>]

\* lines 571-578: buffer the candidate; at the grace period return the
\* average of the buffer and clear it, else return data[-1]
RejectLate(buf, new_value, data) ==
  LET b == Append(buf, new_value)
  IN IF Len(b) > grace_period
     THEN [buf |-> << >>, result |-> <<SumSeq(b), Len(b)>>, path |-> "grace"]
     ELSE [buf |-> b, result |-> <<Last(data), 1>>, path |-> "hold"]
Reject(buf, new_value, data) ==
  LET b == Append(buf, new_value)
  IN IF Len(b) >= grace_period
     THEN [buf |-> << >>, result |-> <<SumSeq(b), Len(b)>>, path |-> "grace"]
     ELSE [buf |-> b, result |-> <<Last(data), 1>>, path |-> "hold"]

\* the new buffer, the returned value (a fraction) and the branch taken
filter_spike(buf, new_value, data) ==
  IF ShortHistory(data)
  THEN [path |-> "short"] @@ Accept(buf, new_value)
  ELSE IF InBand(new_value, data)
       THEN [path |-> "accept"] @@ Accept(buf, new_value)
       ELSE Reject(buf, new_value, data)

\* a rejection as the specification counts it: enough history, and the
\* candidate further than the threshold from the mean of the last ten
Rejected(v, data) ==
  /\ Len(data) >= 10
  /\ LET m == SumSeq(SubSeq(data, Len(data) - 9, Len(data)))
     IN (10 * v - m > 2500) \/ (m - 10 * v > 2500)

\* one call of filter_spike for channel ch. There is one _spike_buffer per
\* RoasterMonitor, whatever series the argument data comes from
FilterCall(ch, v, data) ==
  LET r == filter_spike(_spike_buffer, v, data)
  IN /\ _spike_buffer' = r.buf
     /\ spike_owner' = IF r.buf = Append(_spike_buffer, v)
                       THEN Append(spike_owner, ch)
                       ELSE IF r.buf = _spike_buffer THEN spike_owner
                       ELSE << >>
     /\ spike_run' = IF Rejected(v, data) /\ Len(spike_run) + 1 < 5
                     THEN Append(spike_run, v)
                     ELSE << >>
     /\ fs' = [called |-> TRUE, ch |-> ch, value |-> v, data |-> data,
               before |-> _spike_buffer, ownersBefore |-> spike_owner,
               runBefore |-> spike_run, result |-> r.result, path |-> r.path]
     /\ UNCHANGED <<historyVars, sessionVars, times, buttonVars, producerVars,
                    gpc, now, queueVars, tickVars, resets, ror_call,
                    smooth_call, crackVars, windowVars, csv>>

\* the two channels, candidate values (200.0, 202.5 on the threshold, 203.0
\* and 500.0) and accepted-value histories of 0, 9, 10 and 11 entries
Channels == {"A", "B"}
Candidates == {20000, 20250, 20300, 50000}
Nine200 == [k \in 1..9 |-> 20000]
Ten200 == [k \in 1..10 |-> 20000]
Eleven == [k \in 1..11 |-> IF k = 1 THEN 10000 ELSE 20000]
TenStep == [k \in 1..10 |-> IF k = 10 THEN 20200 ELSE 20000]
Histories == {<< >>, Nine200, Ten200, Eleven, TenStep}

NextSpike ==
  \E ch \in Channels, v \in Candidates, data \in Histories :
    FilterCall(ch, v, data)
SpecSpike == Init /\ [][NextSpike]_vars

\* ------------------- save_data (507-531), load_ghost_profile (399-413)
\* text is a sequence of one-character strings, a file a sequence of lines
DigitChars == <<"0", "1", "2", "3", "4", "5", "6", "7", "8", "9">>
DigitChar(d) == DigitChars[d + 1]
RECURSIVE Decimal(_)
Decimal(n) ==
  IF n < 10 THEN <<DigitChar(n)>>
  ELSE Append(Decimal(n \div 10), DigitChar(n % 10))

\* f'{x}' of the float v/100: the shortest decimal that reads back as the
\* same float, with at least one digit after the point
FormatFloat(v) ==
  LET a == Abs(v)
      f == a % 100
  IN (IF v < 0 THEN <<"-">> ELSE << >>) \o Decimal(a \div 100) \o <<".">> \o
     (IF f % 10 = 0 THEN <<DigitChar(f \div 10)>>
      ELSE <<DigitChar(f \div 10), DigitChar(f % 10)>>)

\* f'{x:.2f}' of a rate: two digits after the point (a tie is rounded up
\* here; the program rounds the nearest binary float)
FormatFixed2(r) ==
  LET q == (2 * r[1] + 100 * r[2]) \div (200 * r[2])
      a == Abs(q)
  IN (IF q < 0 \/ (q = 0 /\ r[1] < 0) THEN <<"-">> ELSE << >>) \o
     Decimal(a \div 100) \o <<".", DigitChar((a % 100) \div 10),
                              DigitChar(a % 10)>>

\* datetime.isoformat() of the k-th stamp: digits and - : T . + only, never
\* a comma
IsoFormat(k) == <<"T">> \o Decimal(k)

\* line 528
HeaderLine ==
  <<"t", "i", "m", "e", ",", "g", "r", "i", "l", "l", "_", "t", "e",
    "m", "p", ",", "d", "r", "u", "m", "_", "t", "e", "m", "p", ",",
    "r", "o", "r", "\n">>
\* lines 512-514 and 531: ror[i] if i < len(ror) else 0
RowLine(iso, grill_temp, drum_temp_val, ror, i) ==
  LET ror_val == IF i <= Len(ror) THEN ror[i] ELSE <<0, 1>>
  IN iso \o <<",">> \o FormatFloat(grill_temp) \o <<",">> \o
     FormatFloat(drum_temp_val) \o <<",">> \o FormatFixed2(ror_val) \o
     <<"\n">>

\* zip() stops at the shorter of its arguments
ZipLen(a, b) == IF a < b THEN a ELSE b

\* lines 501-508 and 510-531: the lines written to the CSV file
CsvLines(ts, iso, grill, drum, w) ==
  LET elapsed == [i \in 1..Len(ts) |-> ts[i] - ts[1]]
      ror == calculate_ror(elapsed, drum, w)
      n == ZipLen(Len(iso), ZipLen(Len(grill), Len(drum)))
  IN <<HeaderLine>> \o
     [i \in 1..n |-> RowLine(iso[i], grill[i], drum[i], ror, i)]

\* str.strip() of a line of the file: the line without its line end
Strip(line) ==
  IF line # << >> /\ Last(line) = "\n"
  THEN SubSeq(line, 1, Len(line) - 1) ELSE line

\* str.split(',')
RECURSIVE Split(_, _)
Split(text, field) ==
  IF text = << >> THEN <<field>>
  ELSE IF Head(text) = ","
       THEN <<field>> \o Split(Tail(text), << >>)
       ELSE Split(Tail(text), Append(field, Head(text)))

\* float(text): an optional sign, digits, optionally a point and digits, at
\* least one digit in all; anything else raises ValueError
IsDigit(c) == \E d \in 0..9 : c = DigitChar(d)
Unsigned(text) ==
  IF text # << >> /\ Head(text) \in {"-", "+"} THEN Tail(text) ELSE text
PointAt(text) ==
  IF \E k \in 1..Len(text) : text[k] = "."
  THEN CHOOSE k \in 1..Len(text) :
         text[k] = "." /\ \A m \in 1..(k - 1) : text[m] # "."
  ELSE Len(text) + 1
FloatOk(text) ==
  LET u == Unsigned(text)
      p == PointAt(u)
  IN /\ \A k \in 1..Len(u) : k # p => IsDigit(u[k])
     /\ \E k \in 1..Len(u) : k # p
RECURSIVE DigitsValue(_)
DigitsValue(text) ==
  IF text = << >> THEN 0
  ELSE 10 * DigitsValue(SubSeq(text, 1, Len(text) - 1))
         + (CHOOSE d \in 0..9 : DigitChar(d) = Last(text))
\* the float read, in hundredths; the texts read here have at most two
\* digits after the point
FloatValue(text) ==
  LET u == Unsigned(text)
      p == PointAt(u)
      whole == SubSeq(u, 1, p - 1)
      frac == SubSeq(u, p + 1, Len(u))
      f == IF Len(frac) = 0 THEN 0
           ELSE IF Len(frac) = 1 THEN 10 * DigitsValue(frac)
           ELSE DigitsValue(SubSeq(frac, 1, 2))
      a == 100 * DigitsValue(whole) + f
  IN IF text # << >> /\ Head(text) = "-" THEN 0 - a ELSE a

\* line 403: a row is skipped unless it splits into exactly three parts
GhostColumns == {3}

\* lines 401-413 over the lines after the header; i counts them from 0
RECURSIVE GhostRows(_, _, _)
GhostRows(lines, i, acc) ==
  IF i > Len(lines) THEN acc
  ELSE LET parts == Split(Strip(lines[i]), << >>)
       IN IF Len(parts) \notin GhostColumns
          THEN GhostRows(lines, i + 1, acc)
          ELSE IF FloatOk(parts[2]) /\ FloatOk(parts[3])
               THEN GhostRows(lines, i + 1,
                      [times |-> Append(acc.times, i - 1),
                       grill |-> Append(acc.grill, FloatValue(parts[2])),
                       drum |-> Append(acc.drum, FloatValue(parts[3]))])
               ELSE GhostRows(lines, i + 1, acc)

\* save_data on the history held in csv
SaveCsv ==
  /\ csv.stage = "history"
  /\ csv' = [csv EXCEPT
               !.stage = "saved",
               !.file = CsvLines(csv.ts, csv.iso, csv.grill, csv.drum, csv.w)]
  /\ UNCHANGED <<historyVars, sessionVars, times, buttonVars, producerVars,
                 gpc, now, queueVars, tickVars, resets, ror_call, smooth_call,
                 spikeVars, crackVars, windowVars>>

\* load_ghost_profile on the file just saved: next(f) skips its first line
load_ghost_profile ==
  /\ csv.stage = "saved"
  /\ LET g == GhostRows(Tail(csv.file), 1,
                        [times |-> << >>, grill |-> << >>, drum |-> << >>])
     IN csv' = [csv EXCEPT !.stage = "loaded",
                           !.ghost_times = g.times,
                           !.ghost_grill = g.grill,
                           !.ghost_drum = g.drum]
  /\ UNCHANGED <<historyVars, sessionVars, times, buttonVars, producerVars,
                 gpc, now, queueVars, tickVars, resets, ror_call, smooth_call,
                 spikeVars, crackVars, windowVars>>

\* aligned histories of 1..MaxRows samples, one per second, with numeric
\* readings on both channels (20.0, 20.25 and -0.05 degrees)
CsvTemps == {2000, 2025, -5}
InitCsv ==
  /\ InitPipeline(Capacity)
  /\ InitControls
  /\ ror_call = NoRorCall
  /\ smooth_call = NoSmoothCall
  /\ InitSpike
  /\ \E n \in 1..MaxRows :
       \E grill \in SeqsOf(CsvTemps, n), drum \in SeqsOf(CsvTemps, n) :
         csv = [NoCsv EXCEPT !.stage = "history",
                             !.ts = [i \in 1..n |-> i - 1],
                             !.iso = [i \in 1..n |-> IsoFormat(i - 1)],
                             !.grill = grill,
                             !.drum = drum]

NextCsv == SaveCsv \/ load_ghost_profile
SpecCsv == InitCsv /\ [][NextCsv]_vars

update_plot == TickBegin \/ DrainTest \/ DrainGet \/ TickRest
stop_logging == StopBegin \/ StopJoin

\* the whole program: every outcome of the sensor, every payload
Next ==
  \/ Notification(Payloads, {0, 1})
  \/ run_ble
  \/ update_plot
  \/ start_logging
  \/ stop_logging
  \/ reset_data
  \/ save_data

Spec == Init /\ [][Next]_vars

\* the pipeline behind a sensor that is found and stays connected
NextPipe ==
  \/ Notification(PipePayloads, {0, 1})
  \/ run_ble_healthy
  \/ update_plot
  \/ start_logging
  \/ reset_data
  \/ save_data

SpecPipe == Init /\ [][NextPipe]_vars

\* the acquisition loop with every outcome of the sensor, under start/stop
NextAcq ==
  \/ Notification(AcqPayloads, {0})
  \/ run_ble
  \/ start_logging
  \/ stop_logging

SpecAcq == Init /\ [][NextAcq]_vars

\* the acquisition loop under start/stop when every awaited scan, connect
\* and sleep completes and a join returns once its thread has exited
SpecAcqLive ==
  Init /\ [][NextAcq]_vars /\ WF_vars(run_ble) /\ WF_vars(StopJoin)

\* the end-to-end scenario: the sensor delivers exactly the four samples
NextScenario ==
  \/ ScenarioNotification
  \/ run_ble_healthy
  \/ update_plot
  \/ start_logging
  \/ save_data

SpecScenario == InitScenario /\ [][NextScenario]_vars

\* the session controls over the acquisition loop with every sensor outcome
NextSession ==
  \/ run_ble
  \/ start_logging
  \/ stop_logging
  \/ reset_data
  \/ save_data
  \/ record_first_crack
  \/ record_second_crack
  \/ closeEvent
  \/ ClockTick

SpecSession == Init /\ [][NextSession]_vars

\* the pipeline while the operator moves the two window settings
NextWindows ==
  \/ Notification(AcqPayloads, {0})
  \/ run_ble_healthy
  \/ update_plot
  \/ start_logging
  \/ update_ror_window
  \/ update_smoothing

SpecWindows == Init /\ [][NextWindows]_vars

\* ------------------------------------------------------------- properties
\* samples processed since the last reset_data
SinceReset == Len(processedLog) - resets
Min(a, b) == IF a < b THEN a ELSE b

\* C1: the timestamp, ISO-timestamp, channel-A and channel-B series always
\* have the same length, in any interleaving with reset_data and beyond the
\* capacity of the deques.
C1_SeriesSameLength ==
  /\ Len(iso_timestamps) = Len(timestamps)
  /\ Len(grill_temp_data) = Len(timestamps)
  /\ Len(drum_temp_data) = Len(timestamps)

\* a tick has processed more samples than the deques hold, of both channels
C1_Witness ==
  /\ gpc = "idle"
  /\ SinceReset > maxlen
  /\ \E i, j \in (resets + 1)..Len(processedLog) :
       processedLog[i][2] # processedLog[j][2]

\* C2: what the consumer has taken off the queue, followed by what is still
\* queued, is the sequence of enqueued samples; below capacity the history
\* holds, in enqueue order, the capture time of every sample processed since
\* the last reset and the sample's reading in its own channel's series.
C2_OrderPreserved ==
  /\ data_queue =
       SubSeq(enqueuedLog, Len(processedLog) + 1, Len(enqueuedLog))
  /\ SinceReset <= maxlen =>
       /\ Len(timestamps) = SinceReset
       /\ \A i \in 1..SinceReset :
            LET smp == enqueuedLog[resets + i]
            IN /\ timestamps[i] = smp[1]
               /\ IF smp[2] = ENV_SENSE_TEMP1_UUID
                  THEN grill_temp_data[i] = smp[3]
                  ELSE drum_temp_data[i] = smp[3]

\* two samples with different capture times were enqueued while the consumer
\* was inside a tick, and both have been appended
C2_Witness ==
  /\ SinceReset = 2
  /\ resets = 0
  /\ timestamps[1] # timestamps[2]
  /\ Len(enqueuedLog) > tickStartEnq
  /\ gpc = "drain"

\* C3: when the drain loop of a tick ends, every sample that was queued when
\* the tick began has been taken off the queue and processed, and no put has
\* ever found the queue full.
C3_DrainsFully ==
  /\ ~putBlocked
  /\ gpc = "rest" =>
       /\ Len(processedLog) >= tickStartEnq
       /\ Len(data_queue) <= Len(enqueuedLog) - tickStartEnq

\* a tick that began with two queued samples has left its drain loop while a
\* third sample arrived after the last emptiness test
C3_Witness ==
  /\ gpc = "rest"
  /\ tickStartEnq - tickStartProc >= 2
  /\ data_queue # << >>

\* C4 as stated: after the four scenario samples and one tick the history
\* holds the two rows (0, 20.00, 20.00) and (1, 20.10, 19.90).
ScenarioTickDone ==
  /\ gpc = "rest"
  /\ tickStartProc = 0
  /\ tickStartEnq = Len(Scenario)
C4_TwoRows ==
  ScenarioTickDone =>
    /\ timestamps = <<0, 1>>
    /\ grill_temp_data = <<Some(2000), Some(2010)>>
    /\ drum_temp_data = <<Some(2000), Some(1990)>>

\* C4 amended: the aligner yields one row per sample; after the four scenario
\* samples and one tick the history holds the four rows (0, 20.00, absent),
\* (0, 20.00, 20.00), (1, 20.10, 20.00), (1, 20.10, 19.90).
C4_FourRows ==
  /\ Len(timestamps) = Len(processedLog)
  /\ ScenarioTickDone =>
       /\ timestamps = <<0, 0, 1, 1>>
       /\ grill_temp_data = <<Some(2000), Some(2000), Some(2010), Some(2010)>>
       /\ drum_temp_data = <<None, Some(2000), Some(2000), Some(1990)>>

C4_Witness == ScenarioTickDone /\ Len(timestamps) = 4

\* C5 as stated: the history is the window of the last min(k, maxlen) of the
\* k samples processed since the last reset; row i carries the capture time
\* of its sample, the sample's reading in its own channel and the previous
\* entry of the other channel.
RECURSIVE LastKnown(_, _, _)
LastKnown(log, s, uuid) ==
  IF s <= resets THEN None
  ELSE IF log[s][2] = uuid THEN log[s][3]
  ELSE LastKnown(log, s - 1, uuid)
C5_SlidingWindow ==
  LET n == Min(SinceReset, maxlen)
  IN /\ Len(timestamps) = n
     /\ Len(grill_temp_data) = n
     /\ Len(drum_temp_data) = n
     /\ \A i \in 1..n :
          LET s == Len(processedLog) - n + i
          IN /\ timestamps[i] = processedLog[s][1]
             /\ grill_temp_data[i] =
                  LastKnown(processedLog, s, ENV_SENSE_TEMP1_UUID)
             /\ drum_temp_data[i] =
                  LastKnown(processedLog, s, ENV_SENSE_TEMP2_UUID)

\* C6 as stated: every notification has put exactly one sample on the queue
\* and no exception has left the callback.
C6_OneSamplePerNotification ==
  /\ Len(enqueuedLog) = notified
  /\ escaped = 0

\* C7 as stated: in each channel's series, every entry after a real reading
\* is a real reading.
FilledAfterFirst(series) ==
  \A i, j \in 1..Len(series) :
    (i < j /\ series[i] # None) => series[j] # None
C7_ForwardFilled ==
  /\ FilledAfterFirst(grill_temp_data)
  /\ FilledAfterFirst(drum_temp_data)

\* C8 as stated: the elapsed times a tick or a save has just computed are
\* capture time minus session start while a roast is active, and capture
\* time minus first capture time otherwise.
ElapsedFromStart(ts, started, st) ==
  [i \in 1..Len(ts) |->
     IF started /\ st # None THEN ts[i] - st[1] ELSE ts[i] - ts[1]]
C8_ElapsedFromSessionStart ==
  (gpc = "idle" /\ times # << >>) =>
    times = ElapsedFromStart(timestamps, roast_started, start_time)

\* C9: the tick never waits in the blocking get: whenever it is about to call
\* get the queue holds an item, whatever the producer has done meanwhile.
C9_NeverBlocks ==
  /\ gpc # "blocked"
  /\ gpc = "get" => data_queue # << >>

\* the consumer is about to call get and the producer has enqueued since the
\* tick began
C9_Witness ==
  /\ gpc = "get"
  /\ Len(enqueuedLog) > tickStartEnq

\* C10: an acquisition thread terminates only from the loop test with the
\* running flag cleared; with the flag set the loop test leads to Scanning,
\* and every failure position leads back to the loop test.
FailurePositions == {"sleep_nf", "aexit", "except"}
C10_OnlyStopTerminates ==
  [][\A i \in DOMAIN pc :
       /\ (pc[i] # "done" /\ pc'[i] = "done") =>
            (pc[i] = "loop" /\ ~running)
       /\ (pc[i] = "loop" /\ running /\ pc'[i] # "loop") => pc'[i] = "scan"
       /\ (pc[i] \in FailurePositions /\ pc'[i] # pc[i]) =>
            pc'[i] \in {"loop", "except"}]_vars

\* a thread is scanning again after a failure, the flag still set
C10_Witness ==
  \E i \in DOMAIN pc :
    /\ pc[i] = "scan"
    /\ running
    /\ pending[i] \in {"no_service", "no_chars", "disconnect"}

\* C11 as stated: a thread only starts a scan with no failure pending, that
\* is, every failure is followed by the 5s backoff before the next scan.
C11_BackoffBeforeRescan ==
  \A i \in DOMAIN pc : pc[i] = "scan" => pending[i] = "none"

\* C12: when stop has returned (the GUI thread is idle again with the flag
\* cleared) every acquisition thread has terminated, and from then on no
\* sample is enqueued while the flag stays cleared.
C12_StopReturnsAfterExit ==
  [][/\ (gpc' = "idle" /\ ~running') =>
          \A i \in DOMAIN pc' : pc'[i] = "done"
     /\ (gpc = "idle" /\ ~running) => enqueuedLog' = enqueuedLog]_vars

\* stop has returned after samples were enqueued
C12_Witness ==
  /\ gpc = "idle"
  /\ ~running
  /\ thread # 0
  /\ enqueuedLog # << >>

\* C13 as stated: once the flag is cleared no thread opens a connection or
\* registers a notification subscription.
C13_NoNewConnectionAfterStop ==
  [][\A i \in DOMAIN pc :
       ~running =>
         /\ ~(pc[i] = "connect" /\ pc'[i] = "service")
         /\ ~(pc[i] = "notify1" /\ pc'[i] = "notify2")
         /\ ~(pc[i] = "notify2" /\ pc'[i] = "poll")]_vars

\* C14: for series of equal length N >= 2 the result has N elements and, for
\* every index after the first, with j the greatest earlier index whose gap
\* is at least the look-back (the first index when there is none), equals
\* (x[i]-x[j]) / (t[i]-t[j]) * 60 when t[i] > t[j] and 0 otherwise.
MaxOf(S) == CHOOSE m \in S : \A k \in S : k <= m
LookBackIndex(t, w, i) ==
  LET J == {j \in 1..(i - 1) : t[i] - t[j] >= w}
  IN IF J = {} THEN 1 ELSE MaxOf(J)
C14_RorDefinition ==
  (ror_call.done /\ Len(ror_call.t) >= 2) =>
    LET t == ror_call.t
        x == ror_call.x
    IN /\ Len(ror_call.out) = Len(t)
       /\ \A i \in 2..Len(t) :
            LET j == LookBackIndex(t, ror_call.w, i)
            IN RatEq(ror_call.out[i],
                     IF t[i] > t[j]
                     THEN <<(x[i] - x[j]) * 60, t[i] - t[j]>>
                     ELSE <<0, 1>>)

\* a call where, at some index, the scan passed over the nearest point and
\* stopped before the first one, on a gap equal to the look-back, with a
\* non-zero rate
C14_Witness ==
  /\ ror_call.done
  /\ \E i \in 2..Len(ror_call.t) :
       LET j == LookBackIndex(ror_call.t, ror_call.w, i)
       IN /\ j > 1
          /\ j < i - 1
          /\ ror_call.t[i] - ror_call.t[j] = ror_call.w
          /\ ror_call.out[i][1] # 0

\* C15: on a ramp of +6 degrees per minute sampled once per second the result
\* is 0 at the first index and 6.00 degrees per minute at every other index,
\* for every look-back window. Rates are exact fractions here; the rounding
\* of the program's binary floating point (of the order of 1e-13 on this
\* ramp) is below what the model represents.
IsRamp(c) ==
  /\ Len(c.t) >= 2
  /\ \A i \in 1..Len(c.t) : c.t[i] = i - 1 /\ c.x[i] = c.x[1] + 10 * (i - 1)
C15_RampGivesSix ==
  (ror_call.done /\ IsRamp(ror_call)) =>
    /\ Len(ror_call.out) = Len(ror_call.t)
    /\ RatEq(ror_call.out[1], <<0, 1>>)
    /\ \A i \in 2..Len(ror_call.t) : RatEq(ror_call.out[i], <<600, 1>>)

\* a ramp long enough that some indices use the first point as fallback and
\* later ones a full look-back
C15_Witness ==
  /\ ror_call.done
  /\ IsRamp(ror_call)
  /\ ror_call.w >= 2
  /\ Len(ror_call.t) > ror_call.w + 2

\* C16: with N >= W the displayed series has N-W+1 elements, element k is the
\* mean of x[k..k+W-1] and is paired with the elapsed time at index k+W-1;
\* with N < W the raw series is displayed unchanged.
RECURSIVE SumRange(_, _, _)
SumRange(x, lo, hi) == IF lo > hi THEN 0 ELSE x[lo] + SumRange(x, lo + 1, hi)
C16_MovingAverage ==
  smooth_call.done =>
    LET t == smooth_call.t
        x == smooth_call.x
        W == smooth_call.w
        N == Len(x)
    IN IF N >= W
       THEN /\ Len(smooth_call.out_x) = N - W + 1
            /\ Len(smooth_call.out_t) = N - W + 1
            /\ \A k \in 1..(N - W + 1) :
                 /\ RatEq(smooth_call.out_x[k], <<SumRange(x, k, k + W - 1), W>>)
                 /\ smooth_call.out_t[k] = t[k + W - 1]
       ELSE /\ smooth_call.out_t = t
            /\ Len(smooth_call.out_x) = N
            /\ \A k \in 1..N : RatEq(smooth_call.out_x[k], <<x[k], 1>>)

\* a window strictly between 1 and N over a series that is not constant and
\* whose times are distinct
C16_Witness ==
  /\ smooth_call.done
  /\ smooth_call.w > 1
  /\ Len(smooth_call.x) > smooth_call.w
  /\ smooth_call.x[1] # smooth_call.x[Len(smooth_call.x)]
  /\ smooth_call.t[1] # smooth_call.t[smooth_call.w]

\* C17: with ten or more accepted values and a candidate further than the
\* threshold from the mean of the last ten, filter_spike returns the previous
\* accepted value, except on the fifth rejection in a row, where it returns
\* the average of the five rejected candidates and leaves the outlier buffer
\* empty. Rejections in a row are counted over the calls of filter_spike.
C17_GracePeriod ==
  (fs.called /\ Rejected(fs.value, fs.data)) =>
    IF Len(fs.runBefore) = 4
    THEN /\ RatEq(fs.result, <<SumSeq(fs.runBefore) + fs.value, 5>>)
         /\ _spike_buffer = << >>
    ELSE /\ RatEq(fs.result, <<Last(fs.data), 1>>)
         /\ _spike_buffer = Append(fs.runBefore, fs.value)

\* ten values of 200.0, then the fifth candidate of 500.0 in a row: 500.0
C17_Witness ==
  /\ fs.called
  /\ fs.data = Ten200
  /\ fs.value = 50000
  /\ fs.runBefore = <<50000, 50000, 50000, 50000>>
  /\ RatEq(fs.result, <<50000, 1>>)

\* C18: the outlier buffer never holds candidates of both channels, a call
\* that accepts a value never clears candidates buffered for the other
\* channel, and a grace-period average is taken over candidates of the
\* calling channel only.
C18_PerChannelState ==
  /\ \A i, j \in 1..Len(spike_owner) : spike_owner[i] = spike_owner[j]
  /\ fs.called =>
       \A i \in 1..Len(fs.ownersBefore) :
         (fs.path # "hold") => fs.ownersBefore[i] = fs.ch

\* C19: after every call the outlier buffer holds 0 to 4 candidates; it is
\* empty after a call that accepted its candidate and after a call that
\* returned the grace-period average, and that average is only returned by
\* the fifth of five rejections in a row.
C19_BufferReset ==
  /\ Len(_spike_buffer) <= 4
  /\ fs.called =>
       /\ ~Rejected(fs.value, fs.data) => _spike_buffer = << >>
       /\ fs.path = "grace" =>
            /\ _spike_buffer = << >>
            /\ Rejected(fs.value, fs.data)
            /\ Len(fs.runBefore) = 4
            /\ fs.before = fs.runBefore

\* an in-band candidate arrives while rejected candidates are buffered
C19_Witness ==
  /\ fs.called
  /\ Len(fs.data) >= 10
  /\ ~Rejected(fs.value, fs.data)
  /\ Len(fs.before) >= 2
  /\ _spike_buffer = << >>

\* C20: with fewer than ten accepted values filter_spike returns the
\* candidate itself, however far it is from them, and leaves the outlier
\* buffer empty.
C20_ShortHistoryAccepts ==
  (fs.called /\ Len(fs.data) < 10) =>
    /\ RatEq(fs.result, <<fs.value, 1>>)
    /\ fs.result[2] = 1
    /\ _spike_buffer = << >>

\* nine values of 200.0, a candidate of 500.0, rejected candidates pending
C20_Witness ==
  /\ fs.called
  /\ fs.data = Nine200
  /\ fs.value = 50000
  /\ fs.before # << >>
  /\ fs.result = <<50000, 1>>
  /\ _spike_buffer = << >>

\* C23: once the running flag is cleared, every acquisition thread that is
\* still in its loop, wherever it is, eventually exits, and a caller waiting
\* in stop() eventually returns.
C23_StopIsLive ==
  /\ \A i \in 1..MaxThreads :
       (i \in DOMAIN pc /\ ~running /\ pc[i] # "done")
         ~> (i \in DOMAIN pc /\ pc[i] = "done")
  /\ (gpc = "join") ~> (gpc = "idle")

\* stop() has returned after a stop requested during a backoff sleep
C23_Witness ==
  /\ Len(pc) = 1
  /\ pc[1] = "done"
  /\ pending[1] # "none"
  /\ gpc = "idle"
  /\ ~running
  /\ start_btn

\* C25: roast_started is true exactly when start_time is set, and a step
\* that changes either is a start, which sets both, or a reset, which clears
\* both.
C25_StartedIffStartTime ==
  /\ [](roast_started <=> start_time # None)
  /\ [][(roast_started' # roast_started \/ start_time' # start_time) =>
          \/ start_btn /\ ~start_btn' /\ roast_started' /\ start_time' # None
          \/ ~roast_started' /\ start_time' = None]_vars

\* a roast was started, a crack recorded, the roast stopped and data saved
C25_Witness ==
  /\ roast_started
  /\ start_time # None
  /\ first_crack_end # None
  /\ start_btn
  /\ gpc = "idle"

\* C26: once the start and the end of a crack are both recorded, no step
\* changes them except a reset, which clears both.
C26_CrackRecordedOnce ==
  [][/\ (first_crack_start # None /\ first_crack_end # None) =>
          \/ UNCHANGED <<first_crack_start, first_crack_end>>
          \/ first_crack_start' = None /\ first_crack_end' = None
     /\ (second_crack_start # None /\ second_crack_end # None) =>
          \/ UNCHANGED <<second_crack_start, second_crack_end>>
          \/ second_crack_start' = None /\ second_crack_end' = None]_vars

\* C27: at most one acquisition thread is alive at any time.
Alive == {i \in DOMAIN pc : pc[i] # "done"}
C27_SingleProducer == Cardinality(Alive) <= 1

\* a second thread runs after the first was stopped and the data reset
C27_Witness ==
  /\ Len(pc) = 2
  /\ pc[1] = "done"
  /\ pc[2] = "sleep_poll"
  /\ ~roast_started

\* C22: a step that changes the smoothing window or the rate-of-rise window
\* changes nothing of the accumulated history, the handoff queue, the roast
\* session, the producer or the arrays computed by the last tick.
C22_WindowChangeFrame ==
  [][(ror_window' # ror_window \/ smooth_window' # smooth_window) =>
       UNCHANGED <<historyVars, data_queue, sessionVars, crackVars,
                   producerVars, times>>]_vars

\* both windows were moved; samples are stored and queued, a roast is running
C22_Witness ==
  /\ ror_window = 120
  /\ smooth_window = 1
  /\ Len(timestamps) >= 1
  /\ data_queue # << >>
  /\ roast_started
  /\ Len(pc) >= 1
  /\ pc[1] = "sleep_poll"

\* C24: for every input of at least one sample calculate_ror returns one
\* value per sample, the first being 0.
C24_OneValuePerSample ==
  (ror_call.done /\ Len(ror_call.t) >= 1) =>
    /\ Len(ror_call.out) = Len(ror_call.t)
    /\ RatEq(ror_call.out[1], <<0, 1>>)

\* C21: the temperature columns read back by load_ghost_profile from the
\* file save_data wrote equal, row for row, the saved channel-A and
\* channel-B series.
C21_RoundTrip ==
  csv.stage = "loaded" =>
    /\ csv.ghost_grill = csv.grill
    /\ csv.ghost_drum = csv.drum

====
